---- MODULE Spec2Model ----
(***************************************************************************)
(* Text-to-speech job pipeline of audio_gen_backend (src/main.py):         *)
(* split_text (chunker), tts_request (synthesis client with retry and      *)
(* backoff), the global and per-job semaphores, progress_dict (job         *)
(* tracker) and generate_audio (dispatcher).                               *)
(*                                                                         *)
(* Text is a sequence of one-character strings.                            *)
(***************************************************************************)
EXTENDS Integers, Sequences, FiniteSets, TLC

\* ------------------------------------------------------------------ bounds
\* Longest text enumerated for split_text.
MaxTextLen == 5
\* Largest max_length enumerated for split_text.
MaxMaxLength == 3

\* ------------------------------------------------------------- characters
NL == "\n"
SP == " "
DOT == "."
BANG == "!"
Whitespace == {SP, NL}
Alphabet == {"a", DOT, BANG, SP, NL}

\* ------------------------------------------------------ Python str helpers
StartsWith(s, p) == Len(s) >= Len(p) /\ SubSeq(s, 1, Len(p)) = p

RECURSIVE str_split_from(_, _, _)
str_split_from(s, sep, cur) ==
    IF s = <<>> THEN <<cur>>
    ELSE IF StartsWith(s, sep)
         THEN <<cur>> \o str_split_from(SubSeq(s, Len(sep) + 1, Len(s)), sep, <<>>)
         ELSE str_split_from(Tail(s), sep, Append(cur, Head(s)))

\* str.split(sep): the pieces between the non-overlapping occurrences of sep,
\* scanned left to right; always at least one piece.
str_split(s, sep) == str_split_from(s, sep, <<>>)

RECURSIVE str_lstrip(_)
str_lstrip(s) ==
    IF s # <<>> /\ Head(s) \in Whitespace THEN str_lstrip(Tail(s)) ELSE s

RECURSIVE str_rstrip(_)
str_rstrip(s) ==
    IF s # <<>> /\ s[Len(s)] \in Whitespace
    THEN str_rstrip(SubSeq(s, 1, Len(s) - 1)) ELSE s

\* str.strip(): leading and trailing whitespace removed.
str_strip(s) == str_rstrip(str_lstrip(s))

\* ------------------------------------------------------------- split_text
\* The inner loop of split_text over the sentences of an over-long
\* paragraph, from sentence k on; st = [chunks, temp].
RECURSIVE sentence_loop(_, _, _, _)
sentence_loop(sentences, k, st, max_length) ==
    IF k > Len(sentences) THEN st
    ELSE LET s == sentences[k] IN
         IF Len(st.temp) + Len(s) + 2 <= max_length
         THEN sentence_loop(sentences, k + 1,
                  [chunks |-> st.chunks, temp |-> st.temp \o s \o <<DOT, SP>>],
                  max_length)
         ELSE sentence_loop(sentences, k + 1,
                  [chunks |-> Append(st.chunks, str_strip(st.temp)),
                   temp |-> s \o <<DOT, SP>>],
                  max_length)

\* The chunks of a paragraph longer than max_length, appended to chunks.
split_sentences(para, chunks, max_length) ==
    LET sentences == str_split(para, <<DOT, SP>>)
        st == sentence_loop(sentences, 1, [chunks |-> chunks, temp |-> <<>>], max_length)
    IN  IF str_strip(st.temp) # <<>>
        THEN Append(st.chunks, str_strip(st.temp))
        ELSE st.chunks

\* One iteration of the loop of split_text over the paragraphs; st = [chunks, current].
paragraph_step(st, para, max_length) ==
    IF Len(st.current) + Len(para) + 2 <= max_length
    THEN [chunks |-> st.chunks, current |-> st.current \o para \o <<NL, NL>>]
    ELSE LET flushed == IF str_strip(st.current) # <<>>
                        THEN Append(st.chunks, str_strip(st.current))
                        ELSE st.chunks
         IN  [chunks |-> IF Len(para) > max_length
                         THEN split_sentences(para, flushed, max_length)
                         ELSE Append(flushed, str_strip(para)),
              current |-> <<>>]

RECURSIVE paragraph_loop(_, _, _, _)
paragraph_loop(paragraphs, k, st, max_length) ==
    IF k > Len(paragraphs) THEN st
    ELSE paragraph_loop(paragraphs, k + 1,
                        paragraph_step(st, paragraphs[k], max_length), max_length)

split_text(text, max_length) ==
    LET paragraphs == str_split(text, <<NL, NL>>)
        st == paragraph_loop(paragraphs, 1, [chunks |-> <<>>, current |-> <<>>], max_length)
    IN  IF str_strip(st.current) # <<>>
        THEN Append(st.chunks, str_strip(st.current))
        ELSE st.chunks

\* ---------------------------------------------------------- configuration
\* retries: int = 3, the default every call of tts_request uses.
Retries == 3
\* Job slots: each stands for one request to /generate-audio/.
Jobs == {1, 2}
\* asyncio.Semaphore(15) in the source; scaled down so that a bounded number
\* of chunk tasks contends for the slots.
GlobalCap == 3
\* asyncio.Semaphore(5) in the source; scaled down likewise.
LocalCap == 2
\* max_length = 4500 in the source, the default generate_audio splits with;
\* scaled down so that bounded documents split into several chunks.
DefaultMaxLength == 3

\* Failed responses (non-200 or transport error) the synthesizer gives in
\* one run, over all jobs.
MaxFailures == 3

CustomIds == {"x", "y"}

\* The identifiers request j may carry: the first request's is "x", the
\* second's is the same or another one.
IdsOf(j) == IF j = 1 THEN {"x"} ELSE CustomIds

\* Documents submitted to generate_audio: empty, blank, and documents of
\* three paragraphs and of two.
DocEmpty == <<>>
DocBlank == <<SP, NL>>
DocThree == <<"a", NL, NL, "b", NL, NL, "c", NL>>
DocTwo == <<"a", NL, NL, "b">>

\* The documents request j may carry.
DocsOf(j) == IF j = 1 THEN {DocEmpty, DocThree} ELSE {DocBlank, DocTwo}

Outcomes == {"ok", "status", "error"}

NoResult == <<>>

\* The chunk_id of a task that has not entered tts_request: none of i + 1.
NoChunkId == 0

\* d[key] = value of a dict.
dict_set(d, key, value) ==
    [c \in DOMAIN d \cup {key} |-> IF c = key THEN value ELSE d[c]]

EmptyDict == [c \in {} |-> 0]

\* ------------------------------------------------------------------ state
VARIABLES
    config_key,        \* config["ELEVENLABS_API_KEY"] is non-empty
    progress_dict,     \* dict: custom_id -> [done, total]
    global_semaphore,  \* free slots of global_semaphore
    job,               \* per request: generate_audio's locals and position
    task,              \* per request: one record per process_chunk task
    final_files,       \* custom_id -> content of outputs/<custom_id>.mp3, where written
    split_in,          \* the (text, max_length) split_text is called with
    split_out,         \* whether it was called, and its return value
    progress_reply     \* what get_progress returned, if it is the step just taken

pipeline_vars == <<config_key, progress_dict, global_semaphore, job, task, final_files>>
split_vars == <<split_in, split_out>>
vars == <<config_key, progress_dict, global_semaphore, job, task, final_files,
          split_in, split_out, progress_reply>>

NotCalled == [called |-> FALSE, chunks |-> <<>>]

\* No get_progress call has just returned.
NoReply == [status |-> 0, custom_id |-> "none", body |-> [detail |-> "none"]]

\* ------------------------------------------------------------ generate_audio
\* Mutant of read_text: the text is not stripped.
read_text_raw(doc) == doc

\* text = (await file.read()).decode("utf-8").strip()
read_text(doc) == str_strip(doc)

\* Mutant of chunk_id_of: the enumerate index is passed as it is.
chunk_id_zero_based(i) == i

\* process_chunk(i, chunk) calls tts_request with chunk_id = i + 1.
chunk_id_of(i) == i + 1

\* enumerate(chunks): the k-th chunk in document order is paired with i = k - 1.
enumerate_index(k) == k - 1

\* What the synthesizer returns for a payload text.
Audio(text) == <<"audio", text>>

\* os.path.join(OUTPUT_DIR, part_filename) and the data written to it; j
\* stands for the uuid4 of the call.
output_file(custom_id, chunk_id, j, text) ==
    [name |-> <<custom_id, "part", chunk_id, j>>, data |-> Audio(text)]

IdleJob ==
    [pc |-> "idle", response |-> "none", custom_id |-> "none", doc |-> <<>>,
     split_called |-> FALSE, chunks |-> <<>>, local_semaphore |-> 0,
     session_open |-> FALSE, merge_calls |-> <<>>, final_written |-> FALSE,
     out_of_order |-> FALSE]

\* outcomes: per attempt made, "ok", "failed" (a non-200 response or a
\* transport error of a request that was sent) or "closed" (post raised on
\* a closed session).
NewTask(i, chunk) ==
    [pc |-> "new", i |-> i, text |-> chunk, chunk_id |-> NoChunkId, attempt |-> 0,
     outcomes |-> <<>>, waits |-> <<>>, result |-> NoResult]

Init ==
    /\ config_key \in BOOLEAN
    /\ progress_dict = EmptyDict
    /\ global_semaphore = GlobalCap
    /\ job = [j \in Jobs |-> IdleJob]
    /\ task = [j \in Jobs |-> <<>>]
    /\ final_files = EmptyDict
    /\ split_in = [text |-> <<>>, max_length |-> 1]
    /\ split_out = NotCalled
    /\ progress_reply = NoReply

\* Mutant of tracker_entry: the entry starts with one chunk counted as done.
tracker_entry_started(chunks) == [done |-> 1, total |-> Len(chunks)]

\* progress_dict[custom_id] = {"done": 0, "total": total_chunks}
tracker_entry(chunks) == [done |-> 0, total |-> Len(chunks)]

\* generate_audio up to its await on asyncio.gather.
generate_audio(j, custom_id, doc) ==
    /\ job[j].pc = "idle"
    /\ LET text == read_text(doc) IN
       IF text = <<>>
       THEN /\ job' = [job EXCEPT ![j] =
                        [@ EXCEPT !.pc = "done", !.response = "Text file is empty",
                                  !.custom_id = custom_id, !.doc = doc]]
            /\ UNCHANGED <<progress_dict, task>>
       ELSE LET chunks == split_text(text, DefaultMaxLength) IN
            /\ progress_dict' = dict_set(progress_dict, custom_id, tracker_entry(chunks))
            /\ job' = [job EXCEPT ![j] =
                        [@ EXCEPT !.pc = "gather", !.custom_id = custom_id,
                                  !.doc = doc, !.split_called = TRUE,
                                  !.chunks = chunks,
                                  !.local_semaphore = LocalCap,
                                  !.session_open = TRUE]]
            /\ task' = [task EXCEPT ![j] =
                          [k \in 1..Len(chunks) |-> NewTask(enumerate_index(k), chunks[k])]]
    /\ UNCHANGED <<config_key, global_semaphore, final_files, split_vars>>
    /\ progress_reply' = NoReply

\* ------------------------------------------------------------- tts_request
\* Mutant of backoff: the same wait after every failed attempt.
backoff_constant(attempt) == 2

\* asyncio.sleep(2 * attempt)
backoff(attempt) == 2 * attempt

\* Mutant of on_exception: the last attempt's exception is swallowed and the
\* call returns its (chunk_id, output_file) although no file was written.
on_exception_swallow(t, outcome) ==
    IF t.attempt = Retries
    THEN [t EXCEPT !.pc = "returned", !.outcomes = Append(@, outcome),
                   !.result = <<t.chunk_id,
                                [name |-> <<"none", "part", t.chunk_id, 0>>,
                                 data |-> <<"missing">>]>>]
    ELSE [t EXCEPT !.pc = "sleep_out", !.outcomes = Append(@, outcome),
                   !.waits = Append(@, backoff(t.attempt))]

\* The except branch of tts_request for a task holding no global slot:
\* raise on the last attempt (process_chunk then releases the local slot),
\* otherwise sleep 2 * attempt.
on_exception(t, outcome) ==
    IF t.attempt = Retries
    THEN [t EXCEPT !.pc = "raised", !.outcomes = Append(@, outcome)]
    ELSE [t EXCEPT !.pc = "sleep_out", !.outcomes = Append(@, outcome),
                   !.waits = Append(@, backoff(t.attempt))]

\* The non-200 branch: raise on the last attempt, otherwise sleep
\* 2 * attempt inside "async with global_semaphore".
on_status(t) ==
    IF t.attempt = Retries
    THEN [t EXCEPT !.pc = "raised", !.outcomes = Append(@, "failed")]
    ELSE [t EXCEPT !.pc = "sleep_in", !.outcomes = Append(@, "failed"),
                   !.waits = Append(@, backoff(t.attempt))]

\* Mutant of can_acquire: acquire never blocks.
can_acquire_always(value) == TRUE

\* asyncio.Semaphore.acquire proceeds only while a slot is free.
can_acquire(value) == value > 0

\* Mutant of local_release: the slot is given back on return only, not when
\* the exception of the last attempt leaves "async with local_semaphore".
local_release_on_return(t) == IF t.pc = "returned" THEN 1 ELSE 0

\* Mutant of local_release: "async with local_semaphore" never gives the
\* slot back.
local_release_never(t) == 0

\* Slots of the job's local semaphore given back by a task that ended.
local_release(t) == IF t.pc \in {"returned", "raised"} THEN 1 ELSE 0

\* process_chunk acquires the local slot and enters tts_request: the API
\* key check, then the first iteration of the attempt loop.
process_chunk(j, k) ==
    /\ task[j][k].pc = "new"
    /\ can_acquire(job[j].local_semaphore)
    /\ IF config_key
       THEN /\ task' = [task EXCEPT ![j][k] =
                          [@ EXCEPT !.pc = "acquire", !.attempt = 1,
                                    !.chunk_id = chunk_id_of(task[j][k].i)]]
            /\ job' = [job EXCEPT ![j].local_semaphore = @ - 1]
       ELSE /\ task' = [task EXCEPT ![j][k] =
                          [@ EXCEPT !.pc = "raised", !.chunk_id = chunk_id_of(task[j][k].i)]]
            /\ UNCHANGED job
    /\ UNCHANGED <<config_key, progress_dict, global_semaphore, final_files, split_vars>>
    /\ progress_reply' = NoReply

\* "async with global_semaphore" and session.post; a closed session makes
\* post raise at once.
acquire_global(j, k) ==
    /\ task[j][k].pc = "acquire"
    /\ can_acquire(global_semaphore)
    /\ IF job[j].session_open
       THEN /\ task' = [task EXCEPT ![j][k] = [@ EXCEPT !.pc = "post"]]
            /\ global_semaphore' = global_semaphore - 1
            /\ UNCHANGED job
       ELSE LET t == on_exception(task[j][k], "closed") IN
            /\ task' = [task EXCEPT ![j][k] = t]
            /\ job' = [job EXCEPT ![j].local_semaphore = @ + local_release(t)]
            /\ UNCHANGED global_semaphore
    /\ UNCHANGED <<config_key, progress_dict, final_files, split_vars>>
    /\ progress_reply' = NoReply

\* Mutant of increment: the update is lost.
increment_lost(pd, custom_id) == pd

\* Mutant of increment: done is advanced by two.
increment_twice(pd, custom_id) ==
    IF custom_id \in DOMAIN pd
    THEN [pd EXCEPT ![custom_id].done = @ + 2]
    ELSE pd

\* if custom_id in progress_dict: progress_dict[custom_id]["done"] += 1
increment(pd, custom_id) ==
    IF custom_id \in DOMAIN pd
    THEN [pd EXCEPT ![custom_id].done = @ + 1]
    ELSE pd

RECURSIVE count_in(_, _)
count_in(seq, S) ==
    IF seq = <<>> THEN 0
    ELSE (IF Head(seq) \in S THEN 1 ELSE 0) + count_in(Tail(seq), S)

RECURSIVE sum_over(_, _)
sum_over(f, dom) ==
    IF dom = {} THEN 0
    ELSE LET x == CHOOSE y \in dom : TRUE IN f[x] + sum_over(f, dom \ {x})

\* Failed responses given so far.
failures ==
    sum_over([j \in Jobs |->
                 sum_over([k \in DOMAIN task[j] |->
                              count_in(task[j][k].outcomes, {"failed"})],
                          DOMAIN task[j])],
             Jobs)

\* The response of the synthesizer to the request in flight.
response(j, k, outcome) ==
    /\ task[j][k].pc = "post"
    /\ outcome # "ok" => failures < MaxFailures
    /\ LET old == task[j][k]
           t == CASE outcome = "ok" ->
                       [old EXCEPT !.pc = "returned", !.outcomes = Append(@, "ok"),
                                   !.result = <<old.chunk_id,
                                                output_file(job[j].custom_id, old.chunk_id,
                                                            j, old.text)>>]
                  [] outcome = "status" -> on_status(old)
                  [] outcome = "error" -> on_exception(old, "failed")
       IN  /\ task' = [task EXCEPT ![j][k] = t]
           /\ global_semaphore' = global_semaphore + (IF t.pc = "sleep_in" THEN 0 ELSE 1)
           /\ progress_dict' = IF outcome = "ok"
                               THEN increment(progress_dict, job[j].custom_id)
                               ELSE progress_dict
           /\ job' = [job EXCEPT ![j] =
                        [@ EXCEPT !.local_semaphore = @ + local_release(t),
                                  !.out_of_order =
                                      @ \/ (outcome = "ok" /\ \E m \in DOMAIN task[j] :
                                                m > k /\ task[j][m].pc = "returned")]]
    /\ UNCHANGED <<config_key, final_files, split_vars>>
    /\ progress_reply' = NoReply

\* asyncio.sleep(2 * attempt) is over: the next iteration of the loop. The
\* sleep of the non-200 branch ends inside "async with global_semaphore".
wake(j, k) ==
    /\ task[j][k].pc \in {"sleep_in", "sleep_out"}
    /\ task' = [task EXCEPT ![j][k] = [@ EXCEPT !.pc = "acquire", !.attempt = @ + 1]]
    /\ global_semaphore' = global_semaphore + (IF task[j][k].pc = "sleep_in" THEN 1 ELSE 0)
    /\ UNCHANGED <<config_key, progress_dict, job, final_files, split_vars>>
    /\ progress_reply' = NoReply

\* ---------------------------------------------------- gather, sort, merge
\* asyncio.gather(*tasks): the results in the order of the tasks.
gather(tasks) == [k \in DOMAIN tasks |-> tasks[k].result]

RECURSIVE insert_by_key(_, _)
insert_by_key(sorted, r) ==
    IF sorted = <<>> THEN <<r>>
    ELSE IF sorted[Len(sorted)][1] <= r[1] THEN Append(sorted, r)
    ELSE Append(insert_by_key(SubSeq(sorted, 1, Len(sorted) - 1), r), sorted[Len(sorted)])

RECURSIVE sort_from(_, _, _)
sort_from(results, k, acc) ==
    IF k > Len(results) THEN acc
    ELSE sort_from(results, k + 1, insert_by_key(acc, results[k]))

\* Mutant of sorted_results: descending (reverse=True).
sorted_results_reversed(results) ==
    LET asc == sort_from(results, 1, <<>>)
    IN  [k \in DOMAIN asc |-> asc[Len(asc) + 1 - k]]

\* sorted(results, key=lambda t: t[0]): stable, ascending.
sorted_results(results) == sort_from(results, 1, <<>>)

\* [p for (_, p) in results_sorted]
audio_files_of(results_sorted) == [k \in DOMAIN results_sorted |-> results_sorted[k][2]]

\* What ffmpeg's concat writes for the listed files.
concat(files) == [k \in DOMAIN files |-> files[k].data]

\* await asyncio.gather(*tasks) returns once every task has returned.
all_returned(tasks) == \A k \in DOMAIN tasks : tasks[k].pc = "returned"

\* Every task returned: gather returns, the session closes, the results are
\* sorted and merge_audios_ffmpeg runs; ffmpeg succeeds or fails.
gather_return(j, ffmpeg_ok) ==
    /\ job[j].pc = "gather"
    /\ all_returned(task[j])
    /\ LET audio_files == audio_files_of(sorted_results(gather(task[j])))
           cid == job[j].custom_id
       IN  IF ffmpeg_ok
           THEN /\ job' = [job EXCEPT ![j] =
                            [@ EXCEPT !.pc = "done", !.response = "Success",
                                      !.session_open = FALSE,
                                      !.merge_calls = Append(@, audio_files),
                                      !.final_written = TRUE]]
                /\ final_files' = dict_set(final_files, cid, concat(audio_files))
                /\ progress_dict' = [progress_dict EXCEPT ![cid].done = progress_dict[cid].total]
           ELSE /\ job' = [job EXCEPT ![j] =
                            [@ EXCEPT !.pc = "done", !.response = "ffmpeg failed",
                                      !.session_open = FALSE,
                                      !.merge_calls = Append(@, audio_files)]]
                /\ UNCHANGED <<final_files, progress_dict>>
    /\ UNCHANGED <<config_key, global_semaphore, task, split_vars>>
    /\ progress_reply' = NoReply

\* A task raised: gather propagates the exception, the session closes and
\* generate_audio fails. The other tasks are not cancelled.
gather_raise(j) ==
    /\ job[j].pc = "gather"
    /\ \E k \in DOMAIN task[j] : task[j][k].pc = "raised"
    /\ job' = [job EXCEPT ![j] =
                [@ EXCEPT !.pc = "done", !.response = "chunk failed",
                          !.session_open = FALSE]]
    /\ UNCHANGED <<config_key, progress_dict, global_semaphore, task, final_files,
                   split_vars>>
    /\ progress_reply' = NoReply


Next ==
    \/ \E j \in Jobs : \E c \in IdsOf(j), d \in DocsOf(j) : generate_audio(j, c, d)
    \/ \E j \in Jobs : \E k \in DOMAIN task[j] : process_chunk(j, k)
    \/ \E j \in Jobs : \E k \in DOMAIN task[j] : acquire_global(j, k)
    \/ \E j \in Jobs : \E k \in DOMAIN task[j], o \in Outcomes : response(j, k, o)
    \/ \E j \in Jobs : \E k \in DOMAIN task[j] : wake(j, k)
    \/ \E j \in Jobs, ok \in BOOLEAN : gather_return(j, ok)
    \/ \E j \in Jobs : gather_raise(j)

Spec == Init /\ [][Next]_vars

\* ------------------------------------------------------------ get_progress
\* int((data["done"] / data["total"]) * 100) if data["total"] else 100
percent(data) == IF data.total # 0 THEN (data.done * 100) \div data.total ELSE 100

\* Mutant of get_progress_reply: an entry no chunk of which is done yet is
\* treated as missing.
get_progress_reply_started(pd, custom_id) ==
    IF custom_id \notin DOMAIN pd \/ pd[custom_id].done = 0
    THEN [status |-> 404, custom_id |-> custom_id,
          body |-> [detail |-> "No progress found"]]
    ELSE [status |-> 200, custom_id |-> custom_id,
          body |-> [done |-> pd[custom_id].done, total |-> pd[custom_id].total,
                    percent |-> percent(pd[custom_id])]]

\* The reply of GET /progress/{custom_id}: 404 for an identifier that is not
\* in progress_dict, otherwise its done, total and percent.
get_progress_reply(pd, custom_id) ==
    IF custom_id \notin DOMAIN pd
    THEN [status |-> 404, custom_id |-> custom_id,
          body |-> [detail |-> "No progress found"]]
    ELSE [status |-> 200, custom_id |-> custom_id,
          body |-> [done |-> pd[custom_id].done, total |-> pd[custom_id].total,
                    percent |-> percent(pd[custom_id])]]

get_progress(custom_id) ==
    /\ progress_reply' = get_progress_reply(progress_dict, custom_id)
    /\ UNCHANGED <<pipeline_vars, split_vars>>

\* ---------------------------- specification: the pipeline with get_progress
NextProgress ==
    \/ Next
    \/ \E c \in CustomIds : get_progress(c)

SpecProgress == Init /\ [][NextProgress]_vars

RECURSIVE SeqsUpTo(_)
SeqsUpTo(n) ==
    IF n = 0 THEN {<<>>}
    ELSE LET shorter == SeqsUpTo(n - 1)
         IN  shorter \cup {Append(s, c) : s \in {t \in shorter : Len(t) = n - 1}, c \in Alphabet}

Texts == SeqsUpTo(MaxTextLen)

\* ----------------------------------------------- specification: split_text
InitSplit ==
    /\ split_in \in [text : Texts, max_length : 1..MaxMaxLength]
    /\ split_out = NotCalled
    /\ progress_reply = NoReply
    /\ config_key = TRUE
    /\ progress_dict = EmptyDict
    /\ global_semaphore = GlobalCap
    /\ job = [j \in Jobs |-> IdleJob]
    /\ task = [j \in Jobs |-> <<>>]
    /\ final_files = EmptyDict

CallSplit ==
    /\ split_out = NotCalled
    /\ split_out' = [called |-> TRUE,
                     chunks |-> split_text(split_in.text, split_in.max_length)]
    /\ UNCHANGED <<split_in, pipeline_vars>>
    /\ progress_reply' = NoReply

NextSplit == CallSplit

SpecSplit == InitSplit /\ [][NextSplit]_vars

\* ---------------------------------------------------------------- claims
Registered(j) == job[j].split_called

\* No other request that passed the empty-input check carries j's identifier.
Unshared(j) ==
    \A m \in Jobs \ {j} : Registered(m) => job[m].custom_id # job[j].custom_id

NumReturned(j) == Cardinality({k \in DOMAIN task[j] : task[j][k].pc = "returned"})

InFlightOf(j) == Cardinality({k \in DOMAIN task[j] : task[j][k].pc = "post"})

InFlight == sum_over([j \in Jobs |-> InFlightOf(j)], Jobs)

\* The task made Retries attempts and none succeeded.
Exhausted(t) == Len(t.outcomes) = Retries /\ count_in(t.outcomes, {"ok"}) = 0

IsBlank(doc) == \A n \in DOMAIN doc : doc[n] \in Whitespace

\* C1: whatever the completion order of a job's chunk tasks, the files handed
\* to merge_audios_ffmpeg are the part files of chunks 1, 2, ..., N in
\* document order, each once, each holding the audio of its chunk's text.
C1_MergeInDocumentOrder ==
    \A j \in Jobs : \A m \in DOMAIN job[j].merge_calls :
        LET files == job[j].merge_calls[m] IN
        /\ Len(files) = Len(job[j].chunks)
        /\ \A k \in DOMAIN files :
              /\ files[k] = task[j][k].result[2]
              /\ files[k].data = Audio(job[j].chunks[k])
        /\ \A k1, k2 \in DOMAIN files : k1 # k2 => files[k1].name # files[k2].name

\* A three-chunk job whose tasks completed out of document order was merged.
C1_Witness ==
    \E j \in Jobs :
        /\ job[j].merge_calls # <<>>
        /\ job[j].out_of_order
        /\ Len(job[j].chunks) = 3

\* C2: the synthesis calls in flight never exceed the global semaphore's
\* size process-wide, nor the local semaphore's size for any one job.
C2_ConcurrencyCaps ==
    /\ InFlight <= GlobalCap
    /\ \A j \in Jobs : InFlightOf(j) <= LocalCap

\* Both caps are reached while a further task waits for each semaphore.
C2_Witness ==
    /\ InFlight = GlobalCap
    /\ \E j \in Jobs : \E k \in DOMAIN task[j] : task[j][k].pc = "acquire"
    /\ \E j \in Jobs :
          /\ InFlightOf(j) = LocalCap
          /\ job[j].local_semaphore = 0
          /\ \E k \in DOMAIN task[j] : task[j][k].pc = "new"

\* C3: once a chunk task of a job has exhausted its retries (or raised), the
\* job can only fail: merge_audios_ffmpeg is not invoked for it, it writes no
\* final file and it never answers Success, however many siblings returned.
C3_AllOrNothing ==
    \A j \in Jobs :
        (\E k \in DOMAIN task[j] : Exhausted(task[j][k]) \/ task[j][k].pc = "raised")
        => /\ job[j].merge_calls = <<>>
           /\ ~job[j].final_written
           /\ job[j].response \in {"none", "chunk failed"}
           /\ job[j].pc = "done" => job[j].response = "chunk failed"

\* A job failed on an exhausted chunk although two siblings had returned.
C3_Witness ==
    \E j \in Jobs :
        /\ \E k \in DOMAIN task[j] : Exhausted(task[j][k])
        /\ NumReturned(j) = 2
        /\ job[j].response = "chunk failed"

\* C4: a tts_request call that reached its loop makes attempts until the
\* first success or until Retries attempts failed; it returns exactly when an
\* attempt succeeded and raises exactly when Retries attempts failed; failed
\* attempt a is followed by a wait of 2 * a when a < Retries, and by none
\* when a = Retries.
C4_RetryPolicy ==
    \A j \in Jobs : \A k \in DOMAIN task[j] :
        LET t == task[j][k]
            n == Len(t.outcomes)
            failed == count_in(t.outcomes, {"failed", "closed"})
        IN  /\ n <= Retries
            /\ \A a \in 1..(n - 1) : t.outcomes[a] # "ok"
            /\ (t.pc = "returned") <=> (n >= 1 /\ t.outcomes[n] = "ok")
            /\ (t.pc = "raised" /\ t.attempt >= 1) <=> (n = Retries /\ failed = Retries)
            /\ t.pc \in {"returned", "raised"} /\ t.attempt >= 1 => t.attempt = n
            /\ t.pc \in {"acquire", "post"} => t.attempt = n + 1
            /\ t.pc \in {"sleep_in", "sleep_out"} => t.attempt = n /\ n < Retries
            /\ Len(t.waits) = (IF failed = Retries THEN Retries - 1 ELSE failed)
            /\ \A a \in DOMAIN t.waits : t.waits[a] = 2 * a

\* One call failed three times and raised after waits of 2 and 4.
C4_Witness ==
    \E j \in Jobs : \E k \in DOMAIN task[j] :
        /\ task[j][k].pc = "raised"
        /\ task[j][k].outcomes = <<"failed", "failed", "failed">>
        /\ task[j][k].waits = <<2, 4>>

C5_Bounds ==
    \A j \in Jobs :
        Registered(j) /\ Unshared(j)
        => LET p == progress_dict[job[j].custom_id] IN
           /\ 0 <= p.done
           /\ p.done <= p.total
           /\ all_returned(task[j]) => p.done = p.total

C5_Step ==
    \A j \in Jobs :
        Registered(j) /\ Unshared(j)'
        => progress_dict'[job[j].custom_id].done >= progress_dict[job[j].custom_id].done

\* C5: for a registered job whose identifier no other job shares, done never
\* decreases, 0 <= done <= total, and done = total once every chunk task has
\* returned.
C5_ProgressMonotone == [](C5_Bounds) /\ [][C5_Step]_vars

\* An unshared three-chunk job has all its chunks returned before the merge.
C5_Witness ==
    \E j \in Jobs :
        /\ Registered(j) /\ Unshared(j)
        /\ job[j].pc = "gather"
        /\ Len(task[j]) = 3
        /\ all_returned(task[j])
        /\ progress_dict[job[j].custom_id].done = 3

\* C6 as stated: while the job awaits its chunk tasks, done of its tracker
\* entry is the number of its chunks that returned.
C6_Original ==
    \A j \in Jobs :
        job[j].pc = "gather"
        => progress_dict[job[j].custom_id].done = NumReturned(j)

\* C6, amended: for a registered job whose identifier no other registered
\* job shares, done of its tracker entry is the number of its chunks that
\* returned; failed attempts and interleaved completions add nothing.
C6_DoneCountsReturned ==
    \A j \in Jobs :
        Registered(j) /\ Unshared(j)
        => progress_dict[job[j].custom_id].done = NumReturned(j)

\* Two chunks of an unshared job returned, one of them after a failed
\* attempt, while the third is still in flight.
C6_Witness ==
    \E j \in Jobs :
        /\ Registered(j) /\ Unshared(j)
        /\ job[j].pc = "gather"
        /\ NumReturned(j) = 2
        /\ \E k \in DOMAIN task[j] :
              task[j][k].pc = "returned" /\ Len(task[j][k].outcomes) > 1
        /\ \E k \in DOMAIN task[j] : task[j][k].pc = "post"

\* C7: a submitted document that is empty or all whitespace is answered
\* with the empty-input error; split_text was not called for it, the request
\* registered no tracker entry and it has no chunk task.
C7_EmptyInputRejected ==
    \A j \in Jobs :
        job[j].pc # "idle" /\ IsBlank(job[j].doc)
        => /\ job[j].response = "Text file is empty"
           /\ ~job[j].split_called
           /\ task[j] = <<>>
           /\ Unshared(j) => job[j].custom_id \notin DOMAIN progress_dict

\* A whitespace-only document was rejected while the other job is running.
C7_Witness ==
    \E j \in Jobs :
        /\ job[j].pc = "done"
        /\ job[j].doc # <<>>
        /\ IsBlank(job[j].doc)
        /\ \E m \in Jobs : job[m].pc = "gather"

RECURSIVE flatten(_)
flatten(chunks) == IF chunks = <<>> THEN <<>> ELSE Head(chunks) \o flatten(Tail(chunks))

RECURSIVE non_whitespace(_)
non_whitespace(s) ==
    IF s = <<>> THEN <<>>
    ELSE (IF Head(s) \in Whitespace THEN <<>> ELSE <<Head(s)>>) \o non_whitespace(Tail(s))

SentenceEnd == {DOT, BANG, "?"}

\* The sentences of a paragraph: each ends with '.', '!' or '?' followed by
\* whitespace, or at the paragraph's end.
RECURSIVE sentences_from(_, _)
sentences_from(para, cur) ==
    IF para = <<>> THEN (IF cur = <<>> THEN <<>> ELSE <<cur>>)
    ELSE IF Head(para) \in SentenceEnd /\ Len(para) > 1 /\ para[2] \in Whitespace
         THEN <<Append(cur, Head(para))>> \o sentences_from(Tail(para), <<>>)
         ELSE sentences_from(Tail(para), Append(cur, Head(para)))

source_sentences(text) ==
    LET paragraphs == str_split(text, <<NL, NL>>) IN
    UNION { {sentences_from(paragraphs[p], <<>>)[n] :
                 n \in DOMAIN sentences_from(paragraphs[p], <<>>)} :
            p \in DOMAIN paragraphs }

\* The chunk is one sentence of the source, possibly with the ". " that
\* split_text appends.
consists_of(chunk, sentence) ==
    \/ non_whitespace(chunk) = non_whitespace(sentence)
    \/ non_whitespace(chunk) = Append(non_whitespace(sentence), DOT)

\* C8: for a non-empty text, the chunks of split_text concatenated are the
\* text up to whitespace: no other character is added, removed or reordered.
C8_Lossless ==
    split_out.called /\ split_in.text # <<>>
    => non_whitespace(flatten(split_out.chunks)) = non_whitespace(split_in.text)

\* C9: every chunk of split_text is at most max_length long, unless it is a
\* single sentence of the source that is itself longer than max_length.
C9_LengthBound ==
    split_out.called
    => \A n \in DOMAIN split_out.chunks :
          \/ Len(split_out.chunks[n]) <= split_in.max_length
          \/ \E s \in source_sentences(split_in.text) :
                Len(s) > split_in.max_length /\ consists_of(split_out.chunks[n], s)

\* C18: for a non-empty text without leading or trailing whitespace,
\* split_text returns at least one chunk and none of its chunks is empty.
C18_NoEmptyChunk ==
    split_out.called /\ split_in.text # <<>> /\ str_strip(split_in.text) = split_in.text
    => /\ Len(split_out.chunks) >= 1
       /\ \A n \in DOMAIN split_out.chunks : split_out.chunks[n] # <<>>

\* ------------------------------------------------- utils.py: split_text
RECURSIVE drop_spaces(_)
drop_spaces(s) == IF s # <<>> /\ Head(s) = SP THEN drop_spaces(Tail(s)) ELSE s

\* re.split(r'(?<=[.!?]) +', para): the pieces between the runs of spaces
\* that follow '.', '!' or '?'.
RECURSIVE re_split_from(_, _)
re_split_from(s, cur) ==
    IF s = <<>> THEN <<cur>>
    ELSE IF Head(s) = SP /\ cur # <<>> /\ cur[Len(cur)] \in SentenceEnd
         THEN <<cur>> \o re_split_from(drop_spaces(s), <<>>)
         ELSE re_split_from(Tail(s), Append(cur, Head(s)))

re_split_sentences(para) == re_split_from(para, <<>>)

\* The loop of utils.split_text over the sentences; st = [chunks, temp].
RECURSIVE utils_sentence_loop(_, _, _, _)
utils_sentence_loop(sentences, k, st, max_length) ==
    IF k > Len(sentences) THEN st
    ELSE LET s == sentences[k] IN
         IF Len(st.temp) + Len(s) + 1 <= max_length
         THEN utils_sentence_loop(sentences, k + 1,
                  [chunks |-> st.chunks, temp |-> st.temp \o s \o <<SP>>], max_length)
         ELSE utils_sentence_loop(sentences, k + 1,
                  [chunks |-> Append(st.chunks, str_strip(st.temp)),
                   temp |-> s \o <<SP>>], max_length)

utils_split_sentences(para, chunks, max_length) ==
    LET st == utils_sentence_loop(re_split_sentences(para), 1,
                                  [chunks |-> chunks, temp |-> <<>>], max_length)
    IN  IF st.temp # <<>> THEN Append(st.chunks, str_strip(st.temp)) ELSE st.chunks

\* One iteration of the loop of utils.split_text over the paragraphs.
utils_paragraph_step(st, para, max_length) ==
    IF Len(st.current) + Len(para) + 2 <= max_length
    THEN [chunks |-> st.chunks, current |-> st.current \o para \o <<NL, NL>>]
    ELSE LET flushed == IF st.current # <<>>
                        THEN Append(st.chunks, str_strip(st.current))
                        ELSE st.chunks
         IN  IF Len(para) > max_length
             THEN [chunks |-> utils_split_sentences(para, flushed, max_length),
                   current |-> <<>>]
             ELSE [chunks |-> flushed, current |-> para \o <<NL, NL>>]

RECURSIVE utils_paragraph_loop(_, _, _, _)
utils_paragraph_loop(paragraphs, k, st, max_length) ==
    IF k > Len(paragraphs) THEN st
    ELSE utils_paragraph_loop(paragraphs, k + 1,
                              utils_paragraph_step(st, paragraphs[k], max_length),
                              max_length)

\* split_text of utils.py, the greedy packer.
utils_split_text(text, max_length) ==
    LET paragraphs == str_split(text, <<NL, NL>>)
        st == utils_paragraph_loop(paragraphs, 1,
                                   [chunks |-> <<>>, current |-> <<>>], max_length)
    IN  IF str_strip(st.current) # <<>>
        THEN Append(st.chunks, str_strip(st.current))
        ELSE st.chunks

\* ------------------------------------- specification: paragraph packing
\* Most paragraphs of a packed text.
MaxParagraphs == 3
\* Largest max_length enumerated for packed texts.
MaxPackLength == 6

Paragraphs == {<<>>, <<"a">>, <<"a", "a">>, <<"b">>}

RECURSIVE join_paragraphs(_)
join_paragraphs(paras) ==
    IF Len(paras) = 1 THEN paras[1]
    ELSE paras[1] \o <<NL, NL>> \o join_paragraphs(Tail(paras))

\* Texts of one to MaxParagraphs short paragraphs separated by blank lines.
PackedTexts ==
    UNION { {join_paragraphs(ps) : ps \in [1..n -> Paragraphs]} : n \in 1..MaxParagraphs }

InitPack ==
    /\ split_in \in [text : PackedTexts, max_length : 1..MaxPackLength]
    /\ split_out = NotCalled
    /\ progress_reply = NoReply
    /\ config_key = TRUE
    /\ progress_dict = EmptyDict
    /\ global_semaphore = GlobalCap
    /\ job = [j \in Jobs |-> IdleJob]
    /\ task = [j \in Jobs |-> <<>>]
    /\ final_files = EmptyDict

SpecPack == InitPack /\ [][NextSplit]_vars

\* Every paragraph of the text is non-empty and fits in max_length.
paragraphs_fit(text, max_length) ==
    LET paragraphs == str_split(text, <<NL, NL>>)
    IN  \A p \in DOMAIN paragraphs :
            paragraphs[p] # <<>> /\ Len(paragraphs[p]) <= max_length

\* C14: on a text of non-empty paragraphs that each fit in max_length,
\* split_text returns what the greedy packer of utils.py returns: the
\* paragraph that overflows a chunk starts the next one and later paragraphs
\* join it while they fit.
C14_GreedyPacking ==
    split_out.called /\ paragraphs_fit(split_in.text, split_in.max_length)
    => split_out.chunks = utils_split_text(split_in.text, split_in.max_length)

\* ------------------------------------------------ claims on the semaphores
\* Tasks of job j whose position is one of pcs.
TasksAt(j, pcs) == {k \in DOMAIN task[j] : task[j][k].pc \in pcs}

\* Slots of the global semaphore that are taken.
GlobalHeld == GlobalCap - global_semaphore

\* Slots of job j's local semaphore that are taken.
LocalHeld(j) == LocalCap - job[j].local_semaphore

\* Tasks inside "async with global_semaphore".
InsideGlobal ==
    sum_over([j \in Jobs |-> Cardinality(TasksAt(j, {"post", "sleep_in"}))], Jobs)

\* Tasks of job j inside "async with local_semaphore".
InsideLocal(j) == Cardinality(TasksAt(j, {"acquire", "post", "sleep_in", "sleep_out"}))

Running(j) == TasksAt(j, {"acquire", "post", "sleep_in", "sleep_out"})

\* C12: the slots taken are exactly those of the tasks inside the "async
\* with" blocks: a task whose request is in flight holds a local and a
\* global slot, a task that returned or raised holds none, so with no task
\* running every slot of both semaphores is free.
C12_SlotsPaired ==
    /\ GlobalHeld = InsideGlobal
    /\ \A j \in Jobs : Registered(j) => LocalHeld(j) = InsideLocal(j)
    /\ (\A j \in Jobs : Running(j) = {}) =>
          /\ global_semaphore = GlobalCap
          /\ \A j \in Jobs : Registered(j) => job[j].local_semaphore = LocalCap

\* A job's tasks all ended, one by exhausting its retries and one by
\* returning, no task of any job is running and every slot is free.
C12_Witness ==
    /\ \A j \in Jobs : Running(j) = {}
    /\ global_semaphore = GlobalCap
    /\ \E j \in Jobs :
          /\ Registered(j)
          /\ job[j].local_semaphore = LocalCap
          /\ TasksAt(j, {"new"}) = {}
          /\ \E k \in DOMAIN task[j] :
                task[j][k].pc = "raised" /\ Exhausted(task[j][k])
          /\ \E k \in DOMAIN task[j] : task[j][k].pc = "returned"

\* C13: once a job has failed because a chunk task raised, none of its
\* other tasks is still inside tts_request holding a semaphore slot.
C13_SiblingsAbandoned ==
    \A j \in Jobs : job[j].response = "chunk failed" => Running(j) = {}

\* C19: the global slots taken are exactly the requests in flight; a task
\* sleeping between two attempts holds none.
C19_NoSlotInBackoff == GlobalHeld = InFlight

\* ------------------------------------------------- claim on the job order
C15_Order ==
    \A j \in Jobs :
        /\ (\E k \in DOMAIN task[j] : task[j][k].attempt >= 1) =>
              Registered(j) /\ job[j].custom_id \in DOMAIN progress_dict
        /\ Len(job[j].merge_calls) <= 1
        /\ job[j].merge_calls # <<>> =>
              \A k \in 1..Len(job[j].chunks) :
                  /\ task[j][k].pc = "returned"
                  /\ task[j][k].outcomes[Len(task[j][k].outcomes)] = "ok"
        /\ job[j].response = "Success" =>
              /\ job[j].merge_calls # <<>>
              /\ job[j].final_written
              /\ job[j].custom_id \in DOMAIN final_files
        /\ job[j].final_written => job[j].response = "Success"

C15_Step ==
    \A j \in Jobs :
        \* registration: done = 0, total = number of chunks, no attempt made
        /\ job[j].pc = "idle" /\ job'[j].pc = "gather" =>
              /\ progress_dict'[job'[j].custom_id] =
                     [done |-> 0, total |-> Len(job'[j].chunks)]
              /\ Len(task'[j]) = Len(job'[j].chunks)
              /\ \A k \in DOMAIN task'[j] : task'[j][k].attempt = 0
        \* an attempt starts only while the registered job collects
        /\ \A k \in DOMAIN task[j] :
              task'[j][k].attempt > task[j][k].attempt =>
                  Registered(j) /\ job[j].merge_calls = <<>>
        \* the artifact is returned with the tracker at done = total
        /\ job[j].response # "Success" /\ job'[j].response = "Success" =>
              /\ Len(job'[j].merge_calls) = 1
              /\ progress_dict'[job[j].custom_id].done =
                     progress_dict'[job[j].custom_id].total

\* C15: the tracker entry is registered with done = 0 and total = number
\* of chunks before any synthesis attempt of the job; merge_audios_ffmpeg is
\* called at most once and only when every chunk task returned after a
\* successful attempt; "Success" is returned only after the merge wrote the
\* final file, and at that step the tracker shows done = total.
C15_StateOrder == [](C15_Order) /\ [][C15_Step]_vars

\* A three-chunk job returned "Success" after a retried chunk, with one
\* merge call and the tracker at done = total.
C15_Witness ==
    \E j \in Jobs :
        /\ job[j].response = "Success"
        /\ Len(job[j].chunks) = 3
        /\ Len(job[j].merge_calls) = 1
        /\ \E k \in DOMAIN task[j] : task[j][k].attempt >= 2
        /\ progress_dict[job[j].custom_id].done = 3
        /\ progress_dict[job[j].custom_id].total = 3

\* ---------------------------------------------- specification: tts_request
\* tts_request called for the chunks of one text with a custom_id that the
\* tracker holds an entry for, or holds none for: the tasks of request 1 run
\* under the two semaphores as in generate_audio, but the caller may not
\* have registered the identifier.
InitTts ==
    \E c \in CustomIds, d \in {DocTwo, DocThree}, registered \in BOOLEAN :
        LET chunks == split_text(read_text(d), DefaultMaxLength) IN
        /\ config_key = TRUE
        /\ progress_dict = IF registered
                           THEN dict_set(EmptyDict, c, tracker_entry(chunks))
                           ELSE EmptyDict
        /\ global_semaphore = GlobalCap
        /\ job = [j \in Jobs |->
                    IF j = 1
                    THEN [IdleJob EXCEPT !.pc = "gather", !.custom_id = c, !.doc = d,
                                         !.chunks = chunks,
                                         !.split_called = registered,
                                         !.local_semaphore = LocalCap,
                                         !.session_open = TRUE]
                    ELSE IdleJob]
        /\ task = [j \in Jobs |->
                     IF j = 1
                     THEN [k \in 1..Len(chunks) |->
                              NewTask(enumerate_index(k), chunks[k])]
                     ELSE <<>>]
        /\ final_files = EmptyDict
        /\ split_in = [text |-> <<>>, max_length |-> 1]
        /\ split_out = NotCalled
        /\ progress_reply = NoReply

NextTts ==
    \/ \E j \in Jobs : \E k \in DOMAIN task[j] : process_chunk(j, k)
    \/ \E j \in Jobs : \E k \in DOMAIN task[j] : acquire_global(j, k)
    \/ \E j \in Jobs : \E k \in DOMAIN task[j], o \in Outcomes : response(j, k, o)
    \/ \E j \in Jobs : \E k \in DOMAIN task[j] : wake(j, k)

SpecTts == InitTts /\ [][NextTts]_vars

\* C16: a tts_request whose synthesis succeeded returns its result only if
\* the tracker holds an entry for its custom_id; with the entry missing the
\* call fails instead of skipping the increment.
C16_MissingEntryIsLoud ==
    \A j \in Jobs : \A k \in DOMAIN task[j] :
        task[j][k].pc = "returned" => job[j].custom_id \in DOMAIN progress_dict

\* ----------------------------------------------------- claim on get_progress
\* A request that passed the empty-input check carries the identifier.
EverRegistered(custom_id) ==
    \E j \in Jobs : Registered(j) /\ job[j].custom_id = custom_id

\* C11: get_progress answers 404 exactly for an identifier that no request
\* has registered; for the identifier of a registered request, running,
\* succeeded or failed, it answers 200 with the tracker's entry.
C11_NotFoundIffUnregistered ==
    /\ progress_reply # NoReply =>
          /\ progress_reply.status \in {200, 404}
          /\ progress_reply.status = 404 <=> ~EverRegistered(progress_reply.custom_id)
          /\ progress_reply.status = 200 =>
                /\ progress_reply.body.done = progress_dict[progress_reply.custom_id].done
                /\ progress_reply.body.total = progress_dict[progress_reply.custom_id].total
    /\ \A c \in CustomIds :
          get_progress_reply(progress_dict, c).status = 404 <=> ~EverRegistered(c)

\* get_progress answers 200 for the identifier of a job that failed on a
\* chunk, while the other identifier was never registered.
C11_Witness ==
    /\ progress_reply.status = 200
    /\ \E j \in Jobs :
          /\ job[j].response = "chunk failed"
          /\ job[j].custom_id = progress_reply.custom_id
    /\ \E c \in CustomIds : ~EverRegistered(c)

\* ------------------------------------------ specification: fair scheduling
\* A step of a chunk task: the event loop resumes it, the synthesizer
\* answers its request, or its sleep ends.
TaskStep ==
    \/ \E j \in Jobs : \E k \in DOMAIN task[j] : process_chunk(j, k)
    \/ \E j \in Jobs : \E k \in DOMAIN task[j] : acquire_global(j, k)
    \/ \E j \in Jobs : \E k \in DOMAIN task[j], o \in Outcomes : response(j, k, o)
    \/ \E j \in Jobs : \E k \in DOMAIN task[j] : wake(j, k)

\* generate_audio resumes from its await on asyncio.gather.
GatherStep ==
    \/ \E j \in Jobs, ok \in BOOLEAN : gather_return(j, ok)
    \/ \E j \in Jobs : gather_raise(j)

\* The event loop runs a coroutine that can run, every request is answered
\* and every sleep ends; no request has to be submitted.
FairSpec == Spec /\ WF_vars(TaskStep) /\ WF_vars(GatherStep)

Unfinished(j) == TasksAt(j, {"new", "acquire", "post", "sleep_in", "sleep_out"})

\* While a chunk task is unfinished some chunk task can take a step, and
\* while a job awaits gather with all its tasks finished it can resume.
C17_NoDeadlock ==
    /\ (\E j \in Jobs : Unfinished(j) # {}) => ENABLED TaskStep
    /\ \A j \in Jobs :
          job[j].pc = "gather" /\ Unfinished(j) = {} =>
              ENABLED (gather_return(j, TRUE) \/ gather_raise(j))

\* Every chunk task that was created has returned or raised and every
\* job that created its tasks has ended, with "Success" or with a failure.
C17_Settled ==
    \A j \in Jobs : Unfinished(j) = {} /\ job[j].pc # "gather"

\* C17: under fair scheduling no state is reached in which the unfinished
\* tasks all wait on the semaphores, and again and again every chunk task
\* created so far has returned or raised and every job started so far has
\* ended (a finished task and an ended job stay so), with "Success" or
\* with a failure.
C17_Termination == [](C17_NoDeadlock) /\ []<>(C17_Settled)

\* Every global slot is taken, one of them by a task sleeping between two
\* attempts, while a task waits for a global slot and a task of a job
\* whose local slots are all taken waits for a local one.
C17_Witness ==
    /\ global_semaphore = 0
    /\ \E j \in Jobs : TasksAt(j, {"sleep_in"}) # {}
    /\ \E j \in Jobs : TasksAt(j, {"acquire"}) # {}
    /\ \E j \in Jobs : job[j].local_semaphore = 0 /\ TasksAt(j, {"new"}) # {}
====
